---- MODULE Spec2Model ----
(***************************************************************************)
(* Print-execution pipeline of the 3D model printing system: the Redis     *)
(* backed QueueManager, the BambuAdapter status mapping, and the periodic  *)
(* process_print_queue scheduler (src/PR_SUMMARY.md, sections 3 to 6).     *)
(***************************************************************************)
EXTENDS Integers, Sequences, FiniteSets, TLC

(***************************************************************************)
(* Bounds of the model.                                                    *)
(***************************************************************************)
NumTasks == 3
NumSchedTasks == 2
MaxRestarts == 1
MaxAlive == 2
MaxQueueLen == 6
MaxRuns == 2
MaxInflight == 1
MaxOverrun == 1
MaxModels == 3

Tasks == 1..NumTasks
\* The tasks submitted while the scheduler runs.
SchedTasks == 1..NumSchedTasks
\* Task ids are UUID strings; Redis orders equal-score members by the
\* lexicographic order of the member string, which the integer order stands for.
NoTask == 0
NoPosition == 0
Priorities == {0, 5}

\* The registered printers, in the order get_available_printers lists them.
PrinterSeq == <<"P1", "P2">>
Printers == {PrinterSeq[i] : i \in DOMAIN PrinterSeq}
NoPrinter == "None"
NoReport == "NoReport"
\* slice_model has not been called: no arguments, no exit code, no result.
NoArgs == [stl_exists |-> FALSE, layer_height |-> 0, infill_density |-> 0]
NoReturnCode == -1
NoResult == [ok |-> FALSE, reason |-> "none"]

\* Polling runs are numbered by their startPolling call; a timer carries
\* the number of its run.  pollingTimerRef.current = null is NoTimer.
PollingRuns == 1..MaxRuns
NoTimer == 0

\* Model ids; currentModel = null is NoModel.
ModelIds == 1..MaxModels
NoModelId == 0
NoModel == [id |-> NoModelId, status |-> "null"]

\* The slicing task of a print task before it has run.
NotSliced == [state |-> "PENDING", retries |-> 0, error |-> "None"]

\* get_queue_status has not been called.
NoStatus == [total |-> 0, pending_tasks |-> <<>>, estimated_wait_time |-> 0]

\* No adapter call has returned yet.
NoCall == [op |-> "none", p |-> NoPrinter, value |-> "none", note |-> "none"]

TaskStatus == {"PENDING", "SLICING", "QUEUED", "PRINTING", "PAUSED",
               "COMPLETED", "FAILED", "CANCELLED"}
Terminal == {"COMPLETED", "FAILED", "CANCELLED"}
PrinterStatus == {"OFFLINE", "IDLE", "BUSY", "ERROR", "PAUSED"}

VARIABLES
    zset,            \* Redis sorted set "print_queue": set of [id, score]
    store,           \* Redis keys "print_task:<id>": serialized task snapshot
    status,          \* PrintTask.status of the live task object
    queue_position,  \* PrintTask.queue_position of the live task object
    error,           \* PrintTask.error_message
    enqueued,        \* history: the tasks enqueue() was called for
    clock,           \* history: number of enqueue/dequeue calls so far
    enq_at,          \* history: clock value of each task's enqueue (0 = never)
    deq_log,         \* history: the tasks dequeue() returned, in order
    shadow,          \* history: the queue content ignoring process restarts
    restarts,        \* history: number of process restarts
    restart_at,      \* history: clock value at the last restart
    pstatus,         \* per printer: the status snapshot (_current_status)
    progress,        \* per printer: _current_progress
    current_task_id, \* Printer.current_task_id
    pc,              \* process_print_queue: position in the tick
    avail,           \* process_print_queue: available printers not yet visited
    cur_p,           \* process_print_queue: loop variable printer
    cur_t,           \* process_print_queue: loop variable task
    cancel_pc,       \* per task: position of its cancellation request
    task_printer,    \* history: the printer each task was assigned to
    popped,          \* history: tasks the scheduler's zpopmin returned
    tick_fail,       \* history: tasks whose printer had reported FAILED
                     \*          mid-print when the current tick began
    last_gcode,      \* history: per printer, the gcode_state of the last
                     \*          report the adapter specification delivered
    fail_reported,   \* history: tasks whose printer's last report, received
                     \*          while the task was PRINTING, said FAILED
    mqtt_client,     \* per adapter: BambuAdapter._mqtt_client
    ftp_client,      \* per adapter: BambuAdapter._ftp_client
    lib_printer,     \* per adapter: BambuAdapter._printer (bambulabs_api)
    lib_state,       \* per adapter: the gcode_state cached by _printer
    ret,             \* the last adapter call: operation, adapter, result
    slice_pc,        \* slice_model: "idle", "communicate" or "returned"
    slice_in,        \* slice_model: its arguments (file present, config)
    spawned,         \* slice_model: create_subprocess_exec was called
    waited,          \* slice_model: seconds spent in wait_for so far
    returncode,      \* slice_model: process.returncode
    slice_ret,       \* slice_model: what the call returned or raised
    alive,           \* number of slicer subprocesses still running
    pending,         \* the queued tasks' estimated_time, in zrange order
    queue_status,    \* the QueueStatus get_queue_status returned last
    asked,           \* history: the queue get_queue_status was asked about
    slicing_task,    \* per task: the asynchronous slicing task (state,
                     \*           retries used, last slicing error)
    timers,          \* useStyleTransfer: the interval timers not yet cleared
    pollingTimerRef, \* useStyleTransfer: pollingTimerRef.current
    runs,            \* useStyleTransfer: number of startPolling calls so far
    pollCount,       \* per polling run: pollCount of its closure
    inflight,        \* per polling run: getTaskStatus calls not yet settled
    creating,        \* startStyleTransfer calls awaiting createStyleTask
    currentTask,     \* state.currentTask: "null" or the task's status
    taskStatus,      \* state.taskStatus
    mounted,         \* the component using the hook is mounted
    after_reset,     \* history: reset() ran and startStyleTransfer has not
                     \*          been called since
    poll_pc,         \* pollModelStatus: "idle", "poll", "await" or "done"
    attempts,        \* pollModelStatus: attempts of its closure
    model,           \* pollModelStatus: how the last getModel call settled
    poll_outcome,    \* pollModelStatus: how the call ended
    calls,           \* history: modelApi.getModel calls of this call
    models,          \* useModelStore: models
    currentModel,    \* useModelStore: currentModel
    last_removed     \* history: the id removeModel was last called with,
                     \*          until the next store operation

qvars == <<zset, store, status, queue_position, error, enqueued>>
hvars == <<clock, enq_at, deq_log, shadow, restarts, restart_at>>
pvars == <<pstatus, progress, current_task_id>>
tvars == <<pc, avail, cur_p, cur_t>>
\* The adapter's connections and the result of the last call on it.
evars == <<slice_pc, slice_in, spawned, waited, returncode, slice_ret, alive>>
avars == <<mqtt_client, ftp_client, lib_printer, lib_state, ret>>
uvars == <<pending, queue_status, asked>>
kvars == <<slicing_task>>
fvars == <<timers, pollingTimerRef, runs, pollCount, inflight, creating,
           currentTask, taskStatus, mounted, after_reset>>
lvars == <<poll_pc, attempts, model, poll_outcome, calls>>
mvars == <<models, currentModel, last_removed>>
wvars == <<kvars, fvars, lvars, mvars>>
xvars == <<avars, evars, uvars, wvars>>
gvars == <<task_printer, popped, tick_fail, last_gcode, fail_reported, xvars>>
svars == <<pvars, tvars, cancel_pc, gvars>>
vars == <<qvars, hvars, svars>>

(***************************************************************************)
(* Redis sorted set operations used by QueueManager.                       *)
(***************************************************************************)
\* Sorted-set order: by score, then by member.
Before(e, f) == e.score < f.score \/ (e.score = f.score /\ e.id <= f.id)

ZIds(z) == {e.id : e \in z}

ZAdd(z, id, score) == {e \in z : e.id # id} \cup {[id |-> id, score |-> score]}

ZRem(z, id) == {e \in z : e.id # id}

ZMin(z) == CHOOSE e \in z : \A f \in z : Before(e, f)

ZRank(z, id) ==
    LET me == CHOOSE e \in z : e.id = id
    IN  Cardinality({e \in z : e.id # id /\ Before(e, me)})

NoRecord == [status |-> "None", queue_position |-> NoPosition]

\* task.model_dump_json()
Dump(t) == [status |-> status[t], queue_position |-> queue_position[t]]

\* enqueue: score = -priority
Score(priority) == 0 - priority

(***************************************************************************)
(* PrintTask domain methods.                                               *)
(***************************************************************************)
StartSlicing(t) ==
    /\ status[t] = "PENDING"
    /\ status' = [status EXCEPT ![t] = "SLICING"]
    /\ UNCHANGED <<zset, store, queue_position, error, enqueued, hvars, svars>>

\* task.mark_failed(str(e))
MarkFailed(t, e) ==
    /\ status' = [status EXCEPT ![t] = "FAILED"]
    /\ error' = [error EXCEPT ![t] = e]

\* PrintTask.start_printing raises InvalidStateError from these statuses.
CannotStartPrinting == Terminal \cup {"PENDING", "PRINTING", "PAUSED"}

(***************************************************************************)
(* QueueManager                                                            *)
(***************************************************************************)
\* enqueue(task, priority): called once per task, when its slicing is done.
\* An enqueue that sets the status and leaves the position unset.
EnqueueOpWithoutPosition(t, priority) ==
    /\ status[t] = "SLICING"
    /\ t \notin enqueued
    /\ store' = [store EXCEPT ![t] = Dump(t)]
    /\ zset' = ZAdd(zset, t, Score(priority))
    /\ status' = [status EXCEPT ![t] = "QUEUED"]
    /\ enqueued' = enqueued \cup {t}
    /\ UNCHANGED <<queue_position, error>>

EnqueueOp(t, priority) ==
    /\ status[t] = "SLICING"
    /\ t \notin enqueued
    /\ store' = [store EXCEPT ![t] = Dump(t)]
    /\ zset' = ZAdd(zset, t, Score(priority))
    /\ status' = [status EXCEPT ![t] = "QUEUED"]
    /\ queue_position' = [queue_position EXCEPT ![t] = ZRank(zset', t) + 1]
    /\ enqueued' = enqueued \cup {t}
    /\ UNCHANGED error

Enqueue(t, priority) ==
    /\ EnqueueOp(t, priority)
    /\ clock' = clock + 1
    /\ enq_at' = [enq_at EXCEPT ![t] = clock']
    /\ shadow' = ZAdd(shadow, t, Score(priority))
    /\ UNCHANGED <<deq_log, restarts, restart_at, svars>>

\* The task object dequeue() builds from the stored snapshot.
Loaded(t) ==
    /\ status' = [status EXCEPT ![t] = store[t].status]
    /\ queue_position' = [queue_position EXCEPT ![t] = NoPosition]

\* A dequeue that reads the head with zrange and leaves it in the set.
DequeueWithoutPop ==
    IF zset = {}
    THEN UNCHANGED vars
    ELSE LET e == ZMin(zset) IN
         /\ clock' = clock + 1
         /\ Loaded(e.id)
         /\ deq_log' = Append(deq_log,
                [id |-> e.id, score |-> e.score,
                 enq_at |-> enq_at[e.id], deq_at |-> clock',
                 expected |-> ZMin(shadow).id])
         /\ UNCHANGED <<zset, shadow, store, error, enqueued, enq_at, restarts,
                        restart_at, svars>>

Dequeue ==
    IF zset = {}
    THEN UNCHANGED vars
    ELSE LET e == ZMin(zset) IN
         /\ zset' = zset \ {e}
         /\ shadow' = shadow \ {e}
         /\ clock' = clock + 1
         /\ IF store[e.id] = NoRecord
            THEN UNCHANGED <<status, queue_position, deq_log>>
            ELSE /\ Loaded(e.id)
                 /\ deq_log' = Append(deq_log,
                        [id |-> e.id, score |-> e.score,
                         enq_at |-> enq_at[e.id], deq_at |-> clock',
                         expected |-> ZMin(shadow).id])
         /\ UNCHANGED <<store, error, enqueued, enq_at, restarts, restart_at, svars>>

\* A remove_task that does not read the result of zrem.
RemovedIgnoringZrem(t) == t \in Tasks

\* removed = zrem(queue_key, task_id)
Removed(t) == t \in ZIds(zset)

\* remove_task: the key is deleted, and True returned, only if zrem removed.
RemoveTaskOp(t) ==
    IF Removed(t)
    THEN /\ zset' = ZRem(zset, t)
         /\ store' = [store EXCEPT ![t] = NoRecord]
    ELSE UNCHANGED <<zset, store>>

RemoveTask(t) ==
    /\ RemoveTaskOp(t)
    /\ shadow' = ZRem(shadow, t)
    /\ UNCHANGED <<status, queue_position, error, enqueued, clock, enq_at,
                   deq_log, restarts, restart_at, svars>>

\* A queue kept in process memory instead of Redis: a restart empties it.
RestartInMemoryQueue ==
    /\ restarts < MaxRestarts
    /\ restarts' = restarts + 1
    /\ restart_at' = clock
    /\ zset' = {}
    /\ store' = [t \in Tasks |-> NoRecord]
    /\ UNCHANGED <<status, queue_position, error, enqueued, clock, enq_at,
                   deq_log, shadow, svars>>

\* A process restart: QueueManager keeps only the Redis client and two key
\* names, so nothing of the queue lives in the process.
Restart ==
    /\ restarts < MaxRestarts
    /\ restarts' = restarts + 1
    /\ restart_at' = clock
    /\ UNCHANGED <<qvars, clock, enq_at, deq_log, shadow, svars>>

Init ==
    /\ zset = {}
    /\ store = [t \in Tasks |-> NoRecord]
    /\ status = [t \in Tasks |-> "PENDING"]
    /\ queue_position = [t \in Tasks |-> NoPosition]
    /\ error = [t \in Tasks |-> "None"]
    /\ enqueued = {}
    /\ clock = 0
    /\ enq_at = [t \in Tasks |-> 0]
    /\ deq_log = <<>>
    /\ shadow = {}
    /\ restarts = 0
    /\ restart_at = 0
    /\ pstatus = [p \in Printers |-> "OFFLINE"]
    /\ progress = [p \in Printers |-> 0]
    /\ current_task_id = [p \in Printers |-> NoTask]
    /\ pc = "idle"
    /\ avail = {}
    /\ cur_p = NoPrinter
    /\ cur_t = NoTask
    /\ cancel_pc = [t \in Tasks |-> "none"]
    /\ task_printer = [t \in Tasks |-> NoPrinter]
    /\ popped = {}
    /\ tick_fail = {}
    /\ last_gcode = [p \in Printers |-> NoReport]
    /\ fail_reported = {}
    /\ mqtt_client = [p \in Printers |-> "None"]
    /\ ftp_client = [p \in Printers |-> "None"]
    /\ lib_printer = [p \in Printers |-> "None"]
    /\ lib_state = [p \in Printers |-> NoReport]
    /\ ret = NoCall
    /\ slice_pc = "idle"
    /\ slice_in = NoArgs
    /\ spawned = FALSE
    /\ waited = 0
    /\ returncode = NoReturnCode
    /\ slice_ret = NoResult
    /\ alive = 0
    /\ pending = <<>>
    /\ queue_status = NoStatus
    /\ asked = <<>>
    /\ slicing_task = [t \in SchedTasks |-> NotSliced]
    /\ timers = {}
    /\ pollingTimerRef = NoTimer
    /\ runs = 0
    /\ pollCount = [r \in PollingRuns |-> 0]
    /\ inflight = [r \in PollingRuns |-> 0]
    /\ creating = 0
    /\ currentTask = "null"
    /\ taskStatus = "null"
    /\ mounted = TRUE
    /\ after_reset = FALSE
    /\ poll_pc = "idle"
    /\ attempts = 0
    /\ model = "none"
    /\ poll_outcome = "none"
    /\ calls = 0
    /\ models = <<>>
    /\ currentModel = NoModel
    /\ last_removed = NoModelId

NextQueue ==
    \/ \E t \in Tasks : StartSlicing(t)
    \/ \E t \in Tasks, p \in Priorities : Enqueue(t, p)
    \/ Dequeue
    \/ \E t \in Tasks : RemoveTask(t)
    \/ Restart

SpecQueue == Init /\ [][NextQueue]_vars

(***************************************************************************)
(* BambuAdapter: the status channel.                                       *)
(***************************************************************************)
\* gcode_state values of inbound reports: the five the table knows, one the
\* table does not know, and the empty string a report without the field gives.
GcodeStates == {"IDLE", "RUNNING", "PAUSE", "FINISH", "FAILED", "PREPARE", ""}

\* The reports a printer sends while the scheduler runs.  The scheduler reads
\* a snapshot only as IDLE or not IDLE, so FAILED also stands for the other
\* reports that make a printer unavailable (RUNNING, PAUSE, unknown values).
SchedGcodeStates == {"IDLE", "FAILED"}

\* A mapping table that lacks the "FINISH" entry.
MapStatusWithoutFinish(status_code) ==
    CASE status_code = "IDLE" -> "IDLE"
      [] status_code = "RUNNING" -> "BUSY"
      [] status_code = "PAUSE" -> "PAUSED"
      [] status_code = "FAILED" -> "ERROR"
      [] OTHER -> "OFFLINE"

\* _map_status: mapping.get(status_code, PrinterStatus.OFFLINE)
MapStatus(status_code) ==
    CASE status_code = "IDLE" -> "IDLE"
      [] status_code = "RUNNING" -> "BUSY"
      [] status_code = "PAUSE" -> "PAUSED"
      [] status_code = "FINISH" -> "IDLE"
      [] status_code = "FAILED" -> "ERROR"
      [] OTHER -> "OFFLINE"

\* _on_message: mc_percent is a set, empty when the report lacks the field.
OnMessageOp(p, gcode_state, mc_percent) ==
    /\ progress' = [progress EXCEPT
            ![p] = IF mc_percent = {} THEN 0 ELSE CHOOSE n \in mc_percent : TRUE]
    /\ pstatus' = [pstatus EXCEPT ![p] = MapStatus(gcode_state)]

\* mc_percent of a report: absent, or a percentage.
PercentInputs == {{}, {0}, {50}, {100}}

\* One inbound report on the status channel of printer p.
AdapterReport(p, gcode_state, mc_percent) ==
    /\ OnMessageOp(p, gcode_state, mc_percent)
    /\ last_gcode' = [last_gcode EXCEPT ![p] = gcode_state]
    /\ UNCHANGED <<qvars, hvars, current_task_id, tvars, cancel_pc, task_printer,
                   popped, tick_fail, fail_reported, xvars>>

NextAdapter ==
    \E p \in Printers, g \in GcodeStates, m \in PercentInputs :
        AdapterReport(p, g, m)

SpecAdapter == Init /\ [][NextAdapter]_vars

(***************************************************************************)
(* BambuAdapter: connections.  The repository describes the adapter twice: *)
(* with its own MQTT and FTP clients (PR_SUMMARY.md) and on top of the     *)
(* bambulabs_api Printer (BAMBULABS_API_ANALYSIS.md).  Each variant keeps  *)
(* its own fields; the operations of the second are prefixed Lib.          *)
(***************************************************************************)
\* The adapter whose calls the device specification follows.
DevicePrinters == {PrinterSeq[1]}

Returned(op, p, value, note) ==
    [op |-> op, p |-> p, value |-> value, note |-> note]

\* What no adapter call changes.
DeviceFrame ==
    UNCHANGED <<qvars, hvars, progress, current_task_id, tvars, cancel_pc,
                task_printer, popped, tick_fail, fail_reported, evars, uvars, wvars>>

\* The step of connect() that raises, "none" if none does.
ConnectFailures == {"mqtt_connect", "subscribe", "ftp_connect", "ftp_login", "none"}

\* connect(): everything is inside one try; the status is set to IDLE and True
\* returned after the FTP login, False returned from the except branch.
Connect(p, fails_at) ==
    /\ mqtt_client' = [mqtt_client EXCEPT ![p] =
            CASE fails_at = "mqtt_connect" -> "created"
              [] fails_at = "subscribe" -> "connected"
              [] OTHER -> "subscribed"]
    /\ ftp_client' = [ftp_client EXCEPT ![p] =
            CASE fails_at \in {"mqtt_connect", "subscribe"} -> ftp_client[p]
              [] fails_at = "ftp_connect" -> "created"
              [] fails_at = "ftp_login" -> "connected"
              [] OTHER -> "logged_in"]
    /\ pstatus' = IF fails_at = "none" THEN [pstatus EXCEPT ![p] = "IDLE"]
                  ELSE pstatus
    /\ ret' = Returned("connect", p,
                       IF fails_at = "none" THEN "True" ELSE "False", "own")
    /\ UNCHANGED <<last_gcode, lib_printer, lib_state>>
    /\ DeviceFrame

\* What happens in the library variant's connect().
LibConnectOutcomes == {"constructor_raises", "mqtt_start_raises",
                       "not_connected", "connected"}

\* connect() on bambulabs_api: a new Printer, mqtt_start() only, and the
\* result of mqtt_client_connected() after the wait.
LibConnect(p, outcome) ==
    /\ lib_printer' = [lib_printer EXCEPT ![p] =
            CASE outcome = "constructor_raises" -> lib_printer[p]
              [] outcome = "connected" -> "mqtt_connected"
              [] OTHER -> "created"]
    /\ lib_state' = [lib_state EXCEPT ![p] =
            IF outcome = "constructor_raises" THEN lib_state[p] ELSE NoReport]
    /\ ret' = Returned("connect", p,
                       IF outcome = "connected" THEN "True" ELSE "False", "lib")
    /\ UNCHANGED <<pstatus, last_gcode, mqtt_client, ftp_client>>
    /\ DeviceFrame

\* The status channel is subscribed / the file-transfer session is open.
StatusChannelUp(p) ==
    mqtt_client[p] = "subscribed" \/ lib_printer[p] = "mqtt_connected"

FileChannelUp(p) == ftp_client[p] = "logged_in"

\* The gcode_state values reported while the adapter's calls are followed.
DeviceGcodeStates == {"IDLE", "RUNNING", "FAILED", ""}

\* One report on the status channel: _on_message writes the snapshot of the
\* first variant, the library caches the state for the second.
DeviceReport(p, gcode_state) ==
    /\ StatusChannelUp(p)
    /\ IF mqtt_client[p] = "subscribed"
       THEN /\ OnMessageOp(p, gcode_state, {})
            /\ last_gcode' = [last_gcode EXCEPT ![p] = gcode_state]
       ELSE UNCHANGED <<pstatus, progress, last_gcode>>
    /\ lib_state' = IF lib_printer[p] = "mqtt_connected"
                    THEN [lib_state EXCEPT ![p] = gcode_state] ELSE lib_state
    /\ UNCHANGED <<qvars, hvars, current_task_id, tvars, cancel_pc,
                   task_printer, popped, tick_fail, fail_reported,
                   mqtt_client, ftp_client, lib_printer, ret, evars, uvars,
                   wvars>>

\* get_status(): return self._current_status
GetStatus(p) ==
    /\ ret' = Returned("get_status", p, pstatus[p], "own")
    /\ UNCHANGED <<pstatus, last_gcode, mqtt_client, ftp_client, lib_printer,
                   lib_state>>
    /\ DeviceFrame

\* get_status() on bambulabs_api: OFFLINE without a Printer, else the mapped
\* get_state() of the library (UNKNOWN before any report).
LibGetStatus(p) ==
    /\ ret' = Returned("get_status", p,
                       IF lib_printer[p] = "None" THEN "OFFLINE"
                       ELSE MapStatus(lib_state[p]), "lib")
    /\ UNCHANGED <<pstatus, last_gcode, mqtt_client, ftp_client, lib_printer,
                   lib_state>>
    /\ DeviceFrame

\* A disconnect() that calls the library without looking at _printer.
LibDisconnectUnguarded(p) ==
    /\ lib_printer' = [lib_printer EXCEPT ![p] = "None"]
    /\ ret' = Returned("disconnect", p,
                       IF lib_printer[p] = "None" THEN "raised" ELSE "returned",
                       IF lib_printer[p] = "None" THEN "again" ELSE "first")
    /\ UNCHANGED <<pstatus, last_gcode, mqtt_client, ftp_client, lib_state>>
    /\ DeviceFrame

\* disconnect(): if self._printer: self._printer.disconnect(); self._printer = None
LibDisconnect(p) ==
    /\ lib_printer' = [lib_printer EXCEPT ![p] = "None"]
    /\ ret' = Returned("disconnect", p, "returned",
                       IF lib_printer[p] = "None" THEN "again" ELSE "first")
    /\ UNCHANGED <<pstatus, last_gcode, mqtt_client, ftp_client, lib_state>>
    /\ DeviceFrame

\* How an upload ends: stored, FTP error 426 after the data was sent, or
\* another error.
UploadOutcomes == {"ok", "error_426", "error"}

\* What the device and the presence check say after an upload.
UploadNote(upload, on_device, verify_ok) ==
    CASE upload = "ok" -> "stored"
      [] upload = "error" -> "error"
      [] upload = "error_426" /\ verify_ok /\ on_device -> "426_present"
      [] upload = "error_426" /\ verify_ok /\ ~on_device -> "426_absent"
      [] upload = "error_426" /\ ~verify_ok /\ on_device -> "426_unverified_present"
      [] OTHER -> "426_unverified_absent"

\* A send_file for which every upload error is a failure.
LibSendFileHardFail(p, upload, on_device, verify_ok) ==
    /\ upload = "ok" => on_device
    /\ ret' = IF lib_printer[p] = "None"
              THEN Returned("send_file", p, "False", "no_printer")
              ELSE Returned("send_file", p,
                            IF upload = "ok" THEN "True" ELSE "False",
                            UploadNote(upload, on_device, verify_ok))
    /\ UNCHANGED <<pstatus, last_gcode, mqtt_client, ftp_client, lib_printer,
                   lib_state>>
    /\ DeviceFrame

\* send_file(): False without a Printer; upload_file; on error 426 the file's
\* presence on the device is checked, and the upload counts as done when the
\* file is there or the check itself fails; any other error is a failure.
LibSendFile(p, upload, on_device, verify_ok) ==
    /\ upload = "ok" => on_device
    /\ ret' = IF lib_printer[p] = "None"
              THEN Returned("send_file", p, "False", "no_printer")
              ELSE Returned("send_file", p,
                            CASE upload = "ok" -> "True"
                              [] upload = "error" -> "False"
                              [] OTHER -> IF ~verify_ok \/ on_device
                                          THEN "True" ELSE "False",
                            UploadNote(upload, on_device, verify_ok))
    /\ UNCHANGED <<pstatus, last_gcode, mqtt_client, ftp_client, lib_printer,
                   lib_state>>
    /\ DeviceFrame

NextDevice ==
    \/ \E p \in DevicePrinters, f \in ConnectFailures : Connect(p, f)
    \/ \E p \in DevicePrinters, o \in LibConnectOutcomes : LibConnect(p, o)
    \/ \E p \in DevicePrinters, g \in DeviceGcodeStates : DeviceReport(p, g)
    \/ \E p \in DevicePrinters : GetStatus(p)
    \/ \E p \in DevicePrinters : LibGetStatus(p)
    \/ \E p \in DevicePrinters : LibDisconnect(p)
    \/ \E p \in DevicePrinters, u \in UploadOutcomes, d, v \in BOOLEAN :
            LibSendFile(p, u, d, v)

SpecDevice == Init /\ [][NextDevice]_vars

(***************************************************************************)
(* CuraEngineSlicer.slice_model: the checks of its arguments, the slicer   *)
(* subprocess under asyncio.wait_for, and the exit code.                   *)
(***************************************************************************)

\* Seconds wait_for lets communicate() run, and the amounts by which the
\* time spent waiting advances.
SliceTimeoutSeconds == 300
WaitSteps == {100, 200}

\* layer_height in hundredths of a millimetre, infill_density in percent.
LayerHeights == {5, 10, 20, 30, 40}
InfillDensities == {0, 20, 100, 150}
ExitCodes == {0, 1}

\* SlicingConfig.validate: layer height 0.1-0.3 mm, infill 0-100 %.
Validate(config) ==
    /\ 10 <= config.layer_height /\ config.layer_height <= 30
    /\ 0 <= config.infill_density /\ config.infill_density <= 100

EngineFrame ==
    UNCHANGED <<qvars, hvars, pvars, tvars, cancel_pc, task_printer, popped,
                tick_fail, last_gcode, fail_reported, avars, uvars, wvars>>

Raised(reason) == [ok |-> FALSE, reason |-> reason]

\* slice_model as first sketched: the command is built and the subprocess
\* started whatever the arguments are.
SliceModelUnchecked(args) ==
    /\ slice_pc \in {"idle", "returned"}
    /\ alive < MaxAlive
    /\ slice_in' = args
    /\ waited' = 0
    /\ returncode' = NoReturnCode
    /\ slice_pc' = "communicate"
    /\ spawned' = TRUE
    /\ alive' = alive + 1
    /\ slice_ret' = NoResult
    /\ EngineFrame

\* slice_model up to create_subprocess_exec: the input file must exist and
\* the configuration must be valid, else the call fails at once.
SliceModel(args) ==
    /\ slice_pc \in {"idle", "returned"}
    /\ alive < MaxAlive
    /\ slice_in' = args
    /\ waited' = 0
    /\ returncode' = NoReturnCode
    /\ IF ~args.stl_exists
       THEN /\ slice_pc' = "returned"
            /\ slice_ret' = Raised("missing_file")
            /\ spawned' = FALSE
            /\ alive' = alive
       ELSE IF ~Validate(args)
       THEN /\ slice_pc' = "returned"
            /\ slice_ret' = Raised("invalid_config")
            /\ spawned' = FALSE
            /\ alive' = alive
       ELSE /\ slice_pc' = "communicate"
            /\ spawned' = TRUE
            /\ alive' = alive + 1
            /\ slice_ret' = NoResult
    /\ EngineFrame

\* Time passes while wait_for awaits communicate().
Wait(seconds) ==
    /\ slice_pc = "communicate"
    /\ waited + seconds <= SliceTimeoutSeconds
    /\ waited' = waited + seconds
    /\ UNCHANGED <<slice_pc, slice_in, spawned, returncode, slice_ret, alive>>
    /\ EngineFrame

\* The subprocess exits and communicate() returns: a non-zero exit code
\* raises, exit code 0 yields the parsed result.  The slicer cannot succeed
\* on a file that is not there.
Communicate(code) ==
    /\ slice_pc = "communicate"
    /\ code = 0 => slice_in.stl_exists
    /\ returncode' = code
    /\ alive' = alive - 1
    /\ slice_pc' = "returned"
    /\ slice_ret' = IF code # 0 THEN Raised("exit_code")
                    ELSE [ok |-> TRUE, reason |-> "GCodeResult"]
    /\ UNCHANGED <<slice_in, spawned, waited>>
    /\ EngineFrame

\* wait_for gives up after the timeout: it cancels communicate() and raises
\* TimeoutError.  Nothing signals the subprocess, which keeps running.
WaitForTimeout ==
    /\ slice_pc = "communicate"
    /\ waited = SliceTimeoutSeconds
    /\ slice_pc' = "returned"
    /\ slice_ret' = Raised("timeout")
    /\ UNCHANGED <<slice_in, spawned, waited, returncode, alive>>
    /\ EngineFrame

\* A subprocess no call is waiting for ends on its own.
OrphanExits ==
    /\ slice_pc # "communicate"
    /\ alive > 0
    /\ alive' = alive - 1
    /\ UNCHANGED <<slice_pc, slice_in, spawned, waited, returncode, slice_ret>>
    /\ EngineFrame

SliceArgs ==
    [stl_exists : BOOLEAN, layer_height : LayerHeights,
     infill_density : InfillDensities]

NextSlicer ==
    \/ \E args \in SliceArgs : SliceModel(args)
    \/ \E seconds \in WaitSteps : Wait(seconds)
    \/ \E code \in ExitCodes : Communicate(code)
    \/ WaitForTimeout
    \/ OrphanExits

SpecSlicer == Init /\ [][NextSlicer]_vars

(***************************************************************************)
(* QueueManager.get_queue_status and _estimate_wait_time, on queues longer *)
(* than the scheduler's.                                                   *)
(***************************************************************************)

\* zrange(queue_key, 0, 4): the first five members.
TopN == 5

\* PrintTask.estimated_time in seconds; NoEstimate is None.
NoEstimate == -1
EstimatedTimes == {NoEstimate, 600}

\* (task.estimated_time or timedelta(0)).total_seconds()
TotalSeconds(estimated_time) ==
    IF estimated_time = NoEstimate THEN 0 ELSE estimated_time

RECURSIVE EstimateWaitTime(_)
EstimateWaitTime(tasks) ==
    IF tasks = <<>> THEN 0
    ELSE TotalSeconds(Head(tasks)) + EstimateWaitTime(Tail(tasks))

\* zrange(key, 0, last): the members of rank 0 to last.
ZRange(z, last) ==
    SubSeq(z, 1, IF Len(z) < last + 1 THEN Len(z) ELSE last + 1)

StatusFrame ==
    UNCHANGED <<qvars, hvars, pvars, tvars, cancel_pc, task_printer, popped,
                tick_fail, last_gcode, fail_reported, avars, evars, wvars>>

\* A task is enqueued behind the queued ones.
QueueArrives(estimated_time) ==
    /\ Len(pending) < MaxQueueLen
    /\ pending' = Append(pending, estimated_time)
    /\ UNCHANGED <<queue_status, asked>>
    /\ StatusFrame

\* The head of the queue is dequeued.
QueueLeaves ==
    /\ pending # <<>>
    /\ pending' = Tail(pending)
    /\ UNCHANGED <<queue_status, asked>>
    /\ StatusFrame

GetQueueStatus ==
    LET tasks == ZRange(pending, TopN - 1) IN
    /\ queue_status' = [total |-> Len(pending),
                        pending_tasks |-> tasks,
                        estimated_wait_time |-> EstimateWaitTime(tasks)]
    /\ asked' = pending
    /\ UNCHANGED pending
    /\ StatusFrame

NextStatus ==
    \/ \E e \in EstimatedTimes : QueueArrives(e)
    \/ QueueLeaves
    \/ GetQueueStatus

SpecStatus == Init /\ [][NextStatus]_vars

(***************************************************************************)
(* The asynchronous slicing task and its retry policy.                     *)
(***************************************************************************)

\* Slicing task: retried twice after a failure.
SlicingMaxRetries == 2

\* How one run of the slicer ends: a result, or one of the slicing errors.
SlicingOutcomes == {"ok", "bad_model", "crash", "timeout"}

SlicingFrame ==
    UNCHANGED <<qvars, hvars, pvars, tvars, cancel_pc, task_printer, popped,
                tick_fail, last_gcode, fail_reported, avars, evars, uvars, fvars,
                lvars, mvars>>

\* The worker picks the task up, for the first time or for a retry.
SlicingTaskStarts(t) ==
    /\ slicing_task[t].state \in {"PENDING", "RETRY"}
    /\ slicing_task' = [slicing_task EXCEPT ![t].state = "SLICING"]
    /\ SlicingFrame

\* One run of the slicer ends.  After an error the task is retried while
\* retries are left, and fails when they are used up.
SlicingTaskRuns(t, outcome) ==
    /\ slicing_task[t].state = "SLICING"
    /\ slicing_task' = [slicing_task EXCEPT ![t] =
            IF outcome = "ok"
            THEN [state |-> "SLICED", retries |-> @.retries, error |-> @.error]
            ELSE IF @.retries < SlicingMaxRetries
            THEN [state |-> "RETRY", retries |-> @.retries + 1,
                  error |-> outcome]
            ELSE [state |-> "FAILED", retries |-> @.retries,
                  error |-> outcome]]
    /\ SlicingFrame

NextSlicingTask ==
    \/ \E t \in SchedTasks : SlicingTaskStarts(t)
    \/ \E t \in SchedTasks, o \in SlicingOutcomes : SlicingTaskRuns(t, o)

SpecSlicingTask == Init /\ [][NextSlicingTask]_vars

(***************************************************************************)
(* useStyleTransfer: startStyleTransfer, startPolling and its interval     *)
(* callback, reset, and the effect cleanup.                                *)
(***************************************************************************)

\* const maxPolls = 60
maxPolls == 60

\* TaskStatus values a getTaskStatus response carries.
PollStatuses == {"processing", "completed", "failed"}

PollingFrame ==
    UNCHANGED <<qvars, hvars, pvars, tvars, cancel_pc, task_printer, popped,
                tick_fail, last_gcode, fail_reported, avars, evars, uvars,
                kvars, lvars, mvars>>

\* if (pollingTimerRef.current) clearInterval(pollingTimerRef.current)
ClearInterval(live, ref) == live \ {ref}

\* startStyleTransfer up to `await createStyleTask(request)`.
StartStyleTransfer ==
    /\ mounted
    /\ creating = 0
    /\ runs < MaxRuns
    /\ creating' = creating + 1
    /\ after_reset' = FALSE
    /\ UNCHANGED <<timers, pollingTimerRef, runs, pollCount, inflight,
                   currentTask, taskStatus, mounted>>
    /\ PollingFrame

\* createStyleTask resolved: taskStatus is set and startPolling(task_id)
\* clears the timer in the ref and puts a new one there.
CreateResolves ==
    /\ creating > 0
    /\ creating' = creating - 1
    /\ taskStatus' = IF mounted THEN "pending" ELSE taskStatus
    /\ runs' = runs + 1
    /\ timers' = ClearInterval(timers, pollingTimerRef) \cup {runs'}
    /\ pollingTimerRef' = runs'
    /\ UNCHANGED <<pollCount, inflight, currentTask, mounted, after_reset>>
    /\ PollingFrame

\* createStyleTask rejected: the catch sets the error, no polling starts.
CreateRejects ==
    /\ creating > 0
    /\ creating' = creating - 1
    /\ UNCHANGED <<timers, pollingTimerRef, runs, pollCount, inflight,
                   currentTask, taskStatus, mounted, after_reset>>
    /\ PollingFrame

\* The interval of run r fires: pollCount++ and getTaskStatus is called.
PollFires(r) ==
    /\ r \in timers
    /\ pollCount[r] < maxPolls + MaxOverrun
    /\ inflight[r] < MaxInflight
    /\ pollCount' = [pollCount EXCEPT ![r] = @ + 1]
    /\ inflight' = [inflight EXCEPT ![r] = @ + 1]
    /\ UNCHANGED <<timers, pollingTimerRef, runs, creating, currentTask,
                   taskStatus, mounted, after_reset>>
    /\ PollingFrame

\* A getTaskStatus call of run r resolved: the state is set, and on a final
\* status or a used-up poll count the timer in the ref is cleared.
PollResolves(r, task_status) ==
    /\ inflight[r] > 0
    /\ inflight' = [inflight EXCEPT ![r] = @ - 1]
    /\ currentTask' = IF mounted THEN task_status ELSE currentTask
    /\ taskStatus' = IF mounted THEN task_status ELSE taskStatus
    /\ IF task_status \in {"completed", "failed"} \/ pollCount[r] >= maxPolls
       THEN /\ timers' = ClearInterval(timers, pollingTimerRef)
            /\ pollingTimerRef' = NoTimer
       ELSE UNCHANGED <<timers, pollingTimerRef>>
    /\ UNCHANGED <<runs, pollCount, creating, mounted, after_reset>>
    /\ PollingFrame

\* A getTaskStatus call of run r rejected: the catch logs, nothing else.
PollRejects(r) ==
    /\ inflight[r] > 0
    /\ inflight' = [inflight EXCEPT ![r] = @ - 1]
    /\ UNCHANGED <<timers, pollingTimerRef, runs, pollCount, creating,
                   currentTask, taskStatus, mounted, after_reset>>
    /\ PollingFrame

\* reset(): clears the timer in the ref, nulls the ref, resets the state.
Reset ==
    /\ mounted
    /\ timers' = ClearInterval(timers, pollingTimerRef)
    /\ pollingTimerRef' = NoTimer
    /\ currentTask' = "null"
    /\ taskStatus' = "null"
    /\ after_reset' = TRUE
    /\ UNCHANGED <<runs, pollCount, inflight, creating, mounted>>
    /\ PollingFrame

\* The effect cleanup: clears the timer in the ref and leaves the ref as it
\* is.  It runs on unmount, and whenever uploadedImageUrl changes.
EffectCleanup(unmount) ==
    /\ mounted
    /\ timers' = ClearInterval(timers, pollingTimerRef)
    /\ mounted' = ~unmount
    /\ UNCHANGED <<pollingTimerRef, runs, pollCount, inflight, creating,
                   currentTask, taskStatus, after_reset>>
    /\ PollingFrame

NextPolling ==
    \/ StartStyleTransfer
    \/ CreateResolves
    \/ CreateRejects
    \/ \E r \in PollingRuns : PollFires(r)
    \/ \E r \in PollingRuns, st \in PollStatuses : PollResolves(r, st)
    \/ \E r \in PollingRuns : PollRejects(r)
    \/ Reset
    \/ \E unmount \in BOOLEAN : EffectCleanup(unmount)

SpecPolling == Init /\ [][NextPolling]_vars

(***************************************************************************)
(* GenerationPage.pollModelStatus                                          *)
(***************************************************************************)

\* const maxAttempts = 60
maxAttempts == 60

\* How a modelApi.getModel call settles: the model's status (completed with
\* or without file_path), or a rejection.
GetModelResults == {"pending", "completed_file", "completed_nofile",
                    "failed", "rejected"}

ModelPollFrame ==
    UNCHANGED <<qvars, hvars, pvars, tvars, cancel_pc, task_printer, popped,
                tick_fail, last_gcode, fail_reported, avars, evars, uvars,
                kvars, fvars, mvars>>

\* pollModelStatus(id): attempts = 0, then poll().
PollModelStatus ==
    /\ poll_pc \in {"idle", "done"}
    /\ poll_pc' = "poll"
    /\ attempts' = 0
    /\ calls' = 0
    /\ model' = "none"
    /\ poll_outcome' = "none"
    /\ ModelPollFrame

\* A poll() that calls getModel without looking at attempts.
PollUnbounded ==
    /\ poll_pc = "poll"
    /\ calls < maxAttempts + MaxOverrun
    /\ attempts' = attempts + 1
    /\ calls' = calls + 1
    /\ poll_pc' = "await"
    /\ UNCHANGED <<poll_outcome, model>>
    /\ ModelPollFrame

\* poll() up to the await: the timeout error once attempts are used up,
\* else attempts++ and getModel(id).
Poll ==
    /\ poll_pc = "poll"
    /\ IF attempts >= maxAttempts
       THEN /\ poll_outcome' = "timeout"
            /\ poll_pc' = "done"
            /\ UNCHANGED <<attempts, calls>>
       ELSE /\ attempts' = attempts + 1
            /\ calls' = calls + 1
            /\ poll_pc' = "await"
            /\ UNCHANGED poll_outcome
    /\ UNCHANGED model
    /\ ModelPollFrame

\* getModel settled: success, an error, or after the 2 s sleep the next
\* poll().
GetModelSettles(result) ==
    /\ poll_pc = "await"
    /\ model' = result
    /\ IF result = "completed_file"
       THEN poll_outcome' = "success" /\ poll_pc' = "done"
       ELSE IF result \in {"completed_nofile", "failed", "rejected"}
       THEN poll_outcome' = "error" /\ poll_pc' = "done"
       ELSE poll_outcome' = poll_outcome /\ poll_pc' = "poll"
    /\ UNCHANGED <<attempts, calls>>
    /\ ModelPollFrame

NextModelPoll ==
    \/ PollModelStatus
    \/ Poll
    \/ \E result \in GetModelResults : GetModelSettles(result)

SpecModelPoll == Init /\ [][NextModelPoll]_vars

(***************************************************************************)
(* useModelStore: addModel, updateModel, removeModel, clearModels.         *)
(***************************************************************************)

ModelStatuses == {"pending", "completed", "failed"}

\* Partial<Model3D> without the id: no field, or a new status.
Updates == {{}} \cup {{st} : st \in ModelStatuses}

StoreFrame ==
    UNCHANGED <<qvars, hvars, pvars, tvars, cancel_pc, task_printer, popped,
                tick_fail, last_gcode, fail_reported, avars, evars, uvars,
                kvars, fvars, lvars>>

\* { ...model, ...updates }
Merge(m, updates) ==
    IF updates = {} THEN m
    ELSE [id |-> m.id, status |-> CHOOSE st \in updates : TRUE]

\* state.models.map(model => model.id === id ? {...model, ...updates} : model)
UpdatedModels(list, id, updates) ==
    [i \in DOMAIN list |->
        IF list[i].id = id THEN Merge(list[i], updates) ELSE list[i]]

\* state.models.filter(model => model.id !== id)
RECURSIVE Filter(_, _)
Filter(list, id) ==
    IF list = <<>> THEN <<>>
    ELSE IF Head(list).id = id THEN Filter(Tail(list), id)
    ELSE <<Head(list)>> \o Filter(Tail(list), id)

IdsOf(list) == {list[i].id : i \in DOMAIN list}

\* addModel(model), with an id no stored model has.
AddModel(m) ==
    /\ m.id \notin IdsOf(models)
    /\ models' = <<m>> \o models
    /\ currentModel' = m
    /\ last_removed' = NoModelId
    /\ StoreFrame

\* An updateModel that maps the list and leaves currentModel as it is.
UpdateModelListOnly(id, updates) ==
    /\ models' = UpdatedModels(models, id, updates)
    /\ UNCHANGED currentModel
    /\ last_removed' = NoModelId
    /\ StoreFrame

UpdateModel(id, updates) ==
    /\ models' = UpdatedModels(models, id, updates)
    /\ currentModel' = IF currentModel.id = id
                       THEN Merge(currentModel, updates) ELSE currentModel
    /\ last_removed' = NoModelId
    /\ StoreFrame

RemoveModel(id) ==
    /\ models' = Filter(models, id)
    /\ currentModel' = IF currentModel.id = id THEN NoModel ELSE currentModel
    /\ last_removed' = id
    /\ StoreFrame

ClearModels ==
    /\ models' = <<>>
    /\ currentModel' = NoModel
    /\ last_removed' = NoModelId
    /\ StoreFrame

NextStore ==
    \/ \E id \in ModelIds, st \in ModelStatuses :
            AddModel([id |-> id, status |-> st])
    \/ \E id \in ModelIds, u \in Updates : UpdateModel(id, u)
    \/ \E id \in ModelIds : RemoveModel(id)
    \/ ClearModels

SpecStore == Init /\ [][NextStore]_vars






(***************************************************************************)
(* Printer entity                                                          *)
(***************************************************************************)
\* Printer.is_available: online and idle (every registered printer is enabled).
IsAvailable(p) == pstatus[p] = "IDLE"

\* An assign_task that looks at the printer's status only.
CanAssignIfAvailable(p) == IsAvailable(p)

\* Printer.assign_task raises PrinterBusyError unless the printer is available
\* and holds no task that is still non-terminal.
CanAssign(p) ==
    /\ IsAvailable(p)
    /\ \/ current_task_id[p] = NoTask
       \/ status[current_task_id[p]] \in Terminal

(***************************************************************************)
(* The status report of a printer, as the scheduler's process sees it.     *)
(***************************************************************************)
OnMessage(p, gcode_state) ==
    /\ OnMessageOp(p, gcode_state, {})
    /\ LET t == current_task_id[p]
           \* a cancellation of p's task waits for a status transition
           confirms == /\ t # NoTask
                       /\ cancel_pc[t] = "sent"
                       /\ pstatus'[p] # pstatus[p]
       IN
       /\ cancel_pc' = IF confirms THEN [cancel_pc EXCEPT ![t] = "confirmed"]
                       ELSE cancel_pc
       /\ status' = IF confirms THEN [status EXCEPT ![t] = "CANCELLED"]
                    ELSE status
       /\ fail_reported' =
            IF t = NoTask THEN fail_reported
            ELSE IF gcode_state = "FAILED" /\ status[t] = "PRINTING"
            THEN fail_reported \cup {t}
            ELSE fail_reported \ {t}
    /\ UNCHANGED <<zset, store, queue_position, error, enqueued, hvars,
                   current_task_id, tvars, task_printer, popped, tick_fail,
                   last_gcode, xvars>>

SEnqueue(t, priority) ==
    /\ EnqueueOp(t, priority)
    /\ UNCHANGED <<hvars, svars>>

(***************************************************************************)
(* process_print_queue: one tick.                                          *)
(***************************************************************************)
\* The first printer of the list that is in S.
FirstOf(S) ==
    PrinterSeq[CHOOSE i \in DOMAIN PrinterSeq :
        /\ PrinterSeq[i] \in S
        /\ \A j \in DOMAIN PrinterSeq : PrinterSeq[j] \in S => i <= j]

\* The tick returns ("idle"), or an exception leaves it ("raised").
TickEnds(how) ==
    /\ pc' = how
    /\ avail' = {}
    /\ cur_p' = NoPrinter
    /\ cur_t' = NoTask
    /\ tick_fail' = {}

\* available_printers = printer_service.get_available_printers()
TickBegin ==
    /\ pc \in {"idle", "raised"}
    /\ pc' = "loop"
    /\ avail' = {p \in Printers : IsAvailable(p)}
    /\ tick_fail' = {t \in fail_reported : status[t] = "PRINTING"}
    /\ UNCHANGED <<qvars, hvars, pvars, cur_p, cur_t, cancel_pc, task_printer,
                   popped, last_gcode, fail_reported, xvars>>

\* Loop head and the zpopmin of dequeue(); redis_ok = FALSE is a Redis error,
\* which dequeue() does not catch and which is raised outside the try.
TickPop(redis_ok) ==
    /\ pc = "loop"
    /\ IF avail = {}
       THEN /\ redis_ok
            /\ TickEnds("idle")
            /\ UNCHANGED <<zset, popped>>
       ELSE IF ~redis_ok
       THEN /\ TickEnds("raised")
            /\ UNCHANGED <<zset, popped>>
       ELSE IF zset = {}
       THEN /\ TickEnds("idle")
            /\ UNCHANGED <<zset, popped>>
       ELSE LET e == ZMin(zset)
                p == FirstOf(avail) IN
            /\ zset' = zset \ {e}
            /\ pc' = "get"
            /\ avail' = avail \ {p}
            /\ cur_p' = p
            /\ cur_t' = e.id
            /\ popped' = popped \cup {e.id}
            /\ UNCHANGED tick_fail
    /\ UNCHANGED <<store, status, queue_position, error, enqueued, hvars, pvars,
                   cancel_pc, task_printer, last_gcode, fail_reported, xvars>>

\* The get of dequeue(), then printer.assign_task(task.id).
TickGet(redis_ok) ==
    /\ pc = "get"
    /\ IF ~redis_ok
       THEN /\ TickEnds("raised")
            /\ UNCHANGED <<status, queue_position, error, current_task_id,
                           task_printer>>
       ELSE IF store[cur_t] = NoRecord
       THEN /\ TickEnds("idle")
            /\ UNCHANGED <<status, queue_position, error, current_task_id,
                           task_printer>>
       ELSE IF CanAssign(cur_p)
       THEN /\ Loaded(cur_t)
            /\ current_task_id' = [current_task_id EXCEPT ![cur_p] = cur_t]
            /\ task_printer' = [task_printer EXCEPT ![cur_t] = cur_p]
            /\ pc' = "run"
            /\ UNCHANGED <<error, avail, cur_p, cur_t, tick_fail>>
       ELSE /\ MarkFailed(cur_t, "PrinterBusyError")
            /\ queue_position' = [queue_position EXCEPT ![cur_t] = NoPosition]
            /\ pc' = "loop"
            /\ UNCHANGED <<current_task_id, task_printer, avail, cur_p, cur_t,
                           tick_fail>>
    /\ UNCHANGED <<zset, store, enqueued, hvars, pstatus, progress, cancel_pc,
                   popped, last_gcode, fail_reported, xvars>>

\* adapter.connect (result not read), adapter.send_file (result not read),
\* adapter.start_print, task.start_printing().  conn: the connection was made;
\* send: "ok", "false" (an upload error caught inside send_file) or "raise"
\* (_convert_to_3mf failing before the try); sent: start_print did not raise.
TickRun(conn, send, sent) ==
    /\ pc = "run"
    /\ pc' = "loop"
    /\ send = "ok" => conn
    /\ pstatus' = IF conn THEN [pstatus EXCEPT ![cur_p] = "IDLE"] ELSE pstatus
    /\ IF send = "raise"
       THEN MarkFailed(cur_t, "ConversionError")
       ELSE IF ~sent
       THEN MarkFailed(cur_t, "StartError")
       ELSE IF status[cur_t] \in CannotStartPrinting
       THEN MarkFailed(cur_t, "InvalidStateError")
       ELSE /\ status' = [status EXCEPT ![cur_t] = "PRINTING"]
            /\ UNCHANGED error
    /\ UNCHANGED <<zset, store, queue_position, enqueued, hvars, progress,
                   current_task_id, avail, cur_p, cur_t, cancel_pc, gvars>>

(***************************************************************************)
(* Cancellation requests (CancelTask), concurrent with the tick.           *)
(***************************************************************************)
\* A task that was enqueued and is not printing is cancelled by queue
\* removal: remove_task(id), and the task is cancelled if it returns True.
CancelQueued(t) ==
    /\ cancel_pc[t] = "none"
    /\ t \in enqueued
    /\ status[t] \notin Terminal \cup {"PRINTING", "PAUSED"}
    /\ RemoveTaskOp(t)
    /\ IF Removed(t)
       THEN /\ status' = [status EXCEPT ![t] = "CANCELLED"]
            /\ queue_position' = [queue_position EXCEPT ![t] = NoPosition]
            /\ cancel_pc' = [cancel_pc EXCEPT ![t] = "removed"]
       ELSE UNCHANGED <<status, queue_position, cancel_pc>>
    /\ UNCHANGED <<error, enqueued, hvars, pvars, tvars, gvars>>

\* A printing task is cancelled through adapter.cancel_print(), which only
\* publishes the stop command; the next status transition of the printer
\* (OnMessage) confirms the cancellation.
CancelPrint(t) ==
    /\ status[t] \in {"PRINTING", "PAUSED"}
    /\ cancel_pc[t] = "none"
    /\ cancel_pc' = [cancel_pc EXCEPT ![t] = "sent"]
    /\ UNCHANGED <<qvars, hvars, pvars, tvars, gvars>>

\* A timeout that gives up waiting and leaves the task as it is.
CancelTimeoutLeavesPrinting(t) ==
    /\ cancel_pc[t] = "sent"
    /\ cancel_pc' = [cancel_pc EXCEPT ![t] = "timed_out"]
    /\ UNCHANGED <<qvars, hvars, pvars, tvars, gvars>>

\* The confirmation timeout expires with no status transition seen.
CancelTimeout(t) ==
    /\ cancel_pc[t] = "sent"
    /\ MarkFailed(t, "CancelUnconfirmed")
    /\ cancel_pc' = [cancel_pc EXCEPT ![t] = "timed_out"]
    /\ UNCHANGED <<zset, store, queue_position, enqueued, hvars, pvars, tvars,
                   gvars>>

Next ==
    \/ \E t \in SchedTasks : StartSlicing(t)
    \/ \E t \in SchedTasks, p \in Priorities : SEnqueue(t, p)
    \/ \E p \in Printers, g \in SchedGcodeStates : OnMessage(p, g)
    \/ TickBegin
    \/ \E ok \in BOOLEAN : TickPop(ok)
    \/ \E ok \in BOOLEAN : TickGet(ok)
    \/ \E conn, sent \in BOOLEAN, send \in {"ok", "false", "raise"} :
            TickRun(conn, send, sent)
    \/ \E t \in SchedTasks : CancelQueued(t)
    \/ \E t \in SchedTasks : CancelPrint(t)
    \/ \E t \in SchedTasks : CancelTimeout(t)

Spec == Init /\ [][Next]_vars

(***************************************************************************)
(* Properties of the queue.                                                *)
(***************************************************************************)
\* Entries i < j of the dequeue log that were queued together when i left.
QueuedTogether(i, j) ==
    /\ i \in DOMAIN deq_log /\ j \in DOMAIN deq_log
    /\ i < j
    /\ deq_log[j].enq_at < deq_log[i].deq_at

\* C1: dequeue() returns tasks in non-increasing priority order, and tasks of
\* equal priority in the order they were enqueued (FIFO).
C1_DequeuePriorityThenFifo ==
    \A i, j \in DOMAIN deq_log :
        QueuedTogether(i, j) =>
            /\ deq_log[i].score <= deq_log[j].score
            /\ (deq_log[i].score = deq_log[j].score
                    => deq_log[i].enq_at < deq_log[j].enq_at)

\* What the sorted set does give: priority order, ties by task id.
DequeuePriorityThenId ==
    \A i, j \in DOMAIN deq_log :
        QueuedTogether(i, j) =>
            /\ deq_log[i].score <= deq_log[j].score
            /\ (deq_log[i].score = deq_log[j].score
                    => deq_log[i].id < deq_log[j].id)

Holders(p) == {t \in Tasks : task_printer[t] = p /\ status[t] \notin Terminal}

TickOver == pc \in {"idle", "raised"}

\* C3: at the end of every tick each task the tick dequeued is assigned to a
\* printer, back in the queue or terminal, and a task that found its printer
\* unavailable after the dequeue is back in the queue.
C3_DequeuedNeverDropped ==
    TickOver =>
        \A t \in popped :
            /\ \/ task_printer[t] # NoPrinter
               \/ t \in ZIds(zset)
               \/ status[t] \in Terminal
            /\ error[t] = "PrinterBusyError" =>
                    t \in ZIds(zset) /\ status[t] = "QUEUED"

\* The scheduler's attempts on a task: one for each time it was dequeued, and
\* a task is enqueued once.
Attempts(t) == IF t \in popped THEN 1 ELSE 0

\* C5: a task is FAILED by a sendFile or startPrint failure only after the
\* retry, that is on its second attempt or later.
C5_RetryBeforeFailed ==
    \A t \in Tasks :
        (status[t] = "FAILED" /\ error[t] \in {"ConversionError", "StartError"})
            => Attempts(t) >= 2

C7_RemoveOnlyQueued ==
    \A t \in Tasks :
        /\ cancel_pc[t] = "removed" =>
                /\ t \notin popped
                /\ task_printer[t] = NoPrinter
                /\ status[t] = "CANCELLED"
        /\ (task_printer[t] # NoPrinter /\ status[t] = "CANCELLED") =>
                cancel_pc[t] = "confirmed"

\* A queued task is cancelled while the tick is handling another task.
C7_Witness ==
    \E t \in Tasks :
        /\ cancel_pc[t] = "removed"
        /\ pc \in {"get", "run"}
        /\ cur_t # t

\* C8: a tick that begins after a printer reported FAILED mid-print ends with
\* the printer's task FAILED and the printer available.
C8_FailedReportFailsTask ==
    [][(~TickOver /\ pc' \in {"idle", "raised"}) =>
        \A t \in tick_fail :
            /\ status'[t] = "FAILED"
            /\ \A p \in Printers :
                    current_task_id'[p] = t => pstatus'[p] = "IDLE"]_vars

\* C9: no exception leaves the tick, and a task whose handling ended without
\* an assignment has the failure recorded.
C9_NoFaultEscapes ==
    /\ pc # "raised"
    /\ \A t \in popped :
          (t # cur_t /\ task_printer[t] = NoPrinter) => error[t] # "None"

(***************************************************************************)
(* Properties of the adapter.                                              *)
(***************************************************************************)
\* C10: every gcode_state maps to one status: the five of the table as the
\* table says, every other value, the empty one included, to OFFLINE.
C10_StatusMappingTotal ==
    \A p \in Printers :
        LET g == last_gcode[p] IN
        g # NoReport =>
            /\ pstatus[p] \in PrinterStatus
            /\ g = "IDLE" => pstatus[p] = "IDLE"
            /\ g = "RUNNING" => pstatus[p] = "BUSY"
            /\ g = "PAUSE" => pstatus[p] = "PAUSED"
            /\ g = "FINISH" => pstatus[p] = "IDLE"
            /\ g = "FAILED" => pstatus[p] = "ERROR"
            /\ g \notin {"IDLE", "RUNNING", "PAUSE", "FINISH", "FAILED"}
                    => pstatus[p] = "OFFLINE"

\* One printer's last report had no gcode_state, the other's said FINISH.
C10_Witness ==
    \E p, q \in Printers :
        /\ last_gcode[p] = "" /\ pstatus[p] = "OFFLINE"
        /\ last_gcode[q] = "FINISH" /\ pstatus[q] = "IDLE"

(***************************************************************************)
(* Properties of the adapter's calls.                                      *)
(***************************************************************************)
\* C11: connect() never throws, and returns True only when both the status
\* channel and the file-transfer channel are established.
C11_ConnectFailsClosed ==
    ret.op = "connect" =>
        /\ ret.value \in {"True", "False"}
        /\ ret.value = "True" =>
                StatusChannelUp(ret.p) /\ FileChannelUp(ret.p)

\* What connect() does guarantee: it never throws, and True means that the
\* status channel is established.
ConnectTrueHasStatusChannel ==
    ret.op = "connect" =>
        /\ ret.value \in {"True", "False"}
        /\ ret.value = "True" => StatusChannelUp(ret.p)

\* The status the most recently processed report maps to; OFFLINE before any.
LastReported(g) == IF g = NoReport THEN "OFFLINE" ELSE MapStatus(g)

\* C12: get_status() returns the snapshot written by the most recently
\* processed status report, in every adapter state.
C12_GetStatusLastKnown ==
    ret.op = "get_status" =>
        ret.value = IF ret.note = "own" THEN LastReported(last_gcode[ret.p])
                    ELSE LastReported(lib_state[ret.p])

C15_NoSlicerLeftRunning == slice_pc = "returned" => alive = 0

C18_DequeueReturnsTask ==
    [][(clock' # clock /\ enqueued' = enqueued) =>
            /\ zset # {}
            /\ Cardinality(zset') = Cardinality(zset) - 1
            /\ Len(deq_log') = Len(deq_log) + 1
            /\ deq_log'[Len(deq_log')].id = ZMin(zset).id
            /\ deq_log'[Len(deq_log')].id \notin ZIds(zset')]_vars

\* dequeue() has returned a task while other tasks stayed queued.
C18_Witness == Len(deq_log) > 0 /\ zset # {}

\* C19: get_queue_status reports the number of queued tasks, and as the
\* estimated wait the sum of the estimated times of all of them.
C19_QueueStatusSums ==
    /\ queue_status.total = Len(asked)
    /\ queue_status.estimated_wait_time = EstimateWaitTime(asked)

\* get_queue_status reports the size of the queue, whatever its length.
QueueStatusTotal == queue_status.total = Len(asked)

\* C20: a task, live or stored, has a queue position exactly when its status
\* is QUEUED: after enqueue, after dequeue, after a failed start and after
\* a cancellation.
C20_PositionIffQueued ==
    \A t \in Tasks :
        /\ queue_position[t] # NoPosition <=> status[t] = "QUEUED"
        /\ store[t] # NoRecord =>
            (store[t].queue_position # NoPosition <=> store[t].status = "QUEUED")

\* One task is queued with its record stored, and another has failed to
\* start after it was dequeued.
C20_Witness ==
    \E t, u \in Tasks :
        /\ status[t] = "QUEUED" /\ queue_position[t] # NoPosition
        /\ store[t] # NoRecord
        /\ status[u] = "FAILED" /\ error[u] = "StartError"
        /\ queue_position[u] = NoPosition

\* C21: while a printer is printing (its snapshot is BUSY before and after
\* a report), no report makes the recorded progress go down.
C21_ProgressMonotone ==
    [][\A p \in Printers :
            (pstatus[p] = "BUSY" /\ pstatus'[p] = "BUSY") =>
                progress'[p] >= progress[p]]_vars

\* C22: a task comes to count as started only when a status report is
\* processed, never in the scheduler step in which start_print returned.
C22_CommandNeedsConfirmation ==
    [][\A t \in Tasks :
            (status[t] # "PRINTING" /\ status'[t] = "PRINTING") => pc' = pc]_vars

\* C23: a slicing error is final: a task that has had one is FAILED, and is
\* not waiting for or running another slicing attempt.
C23_SlicingErrorTerminal ==
    \A t \in SchedTasks :
        slicing_task[t].error # "None" => slicing_task[t].state = "FAILED"

\* C24: every task that was stored and has not reached a terminal status
\* still has its stored record.
C24_RecordKeptWhileNonTerminal ==
    \A t \in enqueued : status[t] \notin Terminal => store[t] # NoRecord

\* C25: an adapter is connected (it receives status reports) only from a
\* connect() that returned True on; after a connect() that returned False it
\* is disconnected; and it stops being connected only by disconnect() or by
\* a connect() that failed.
C25_ConnectionStateMachine ==
    [][\A p \in DevicePrinters :
            /\ (~StatusChannelUp(p) /\ StatusChannelUp(p)') =>
                    ret' = Returned("connect", p, "True", ret'.note)
            /\ (ret'.op = "connect" /\ ret'.p = p /\ ret'.value = "False") =>
                    ~StatusChannelUp(p)'
            /\ (StatusChannelUp(p) /\ ~StatusChannelUp(p)') =>
                    \/ ret'.op = "disconnect"
                    \/ ret'.op = "connect" /\ ret'.value = "False"]_vars

\* C26: no polling run makes more than maxPolls polls, whatever the
\* getTaskStatus calls do, and no timer is live once a poll of its run has
\* returned a final status.
C26_PollingStops ==
    /\ [](\A r \in PollingRuns : pollCount[r] <= maxPolls)
    /\ [][\A r \in PollingRuns :
            (/\ inflight'[r] < inflight[r]
             /\ currentTask' # currentTask
             /\ currentTask' \in {"completed", "failed"}) =>
                r \notin timers']_vars

\* C28: the only timer that can be live is the one in pollingTimerRef, and
\* none is live after reset() or after the unmount.
C28_OneTimer ==
    /\ timers \subseteq {pollingTimerRef}
    /\ (~mounted \/ after_reset) => timers = {}

\* At most one timer is live, and it is the one startPolling created last.
AtMostOneTimer == timers \subseteq {pollingTimerRef} /\ timers \subseteq {runs}

\* C29: a getTaskStatus response of a polling run whose timer is no longer
\* live changes neither currentTask and taskStatus nor the live timers.
C29_StaleResponseIgnored ==
    [][\A r \in PollingRuns :
            (inflight'[r] < inflight[r] /\ r \notin timers) =>
                /\ currentTask' = currentTask
                /\ taskStatus' = taskStatus
                /\ timers' = timers]_vars

\* C27: pollModelStatus calls getModel at most maxAttempts times, and once
\* it has ended it has exactly one outcome: success exactly when the model
\* was completed with a file, an error when it was failed or completed
\* without a file, the timeout exactly when all attempts were used on a
\* model still pending.
C27_ModelPollEnds ==
    /\ calls <= maxAttempts
    /\ poll_pc # "done" => poll_outcome = "none"
    /\ poll_pc = "done" =>
        /\ poll_outcome \in {"success", "error", "timeout"}
        /\ poll_outcome = "success" <=> model = "completed_file"
        /\ model \in {"failed", "completed_nofile"} => poll_outcome = "error"
        /\ poll_outcome = "timeout" <=> (calls = maxAttempts /\ model = "pending")

\* pollModelStatus has ended with the timeout after maxAttempts calls.
C27_Witness ==
    poll_pc = "done" /\ poll_outcome = "timeout" /\ calls = maxAttempts

\* C30: currentModel is null or equal to the stored model of its id, and
\* after removeModel(id) no stored model and no currentModel has that id.
C30_CurrentModelConsistent ==
    /\ \/ currentModel = NoModel
       \/ \E i \in DOMAIN models : models[i] = currentModel
    /\ last_removed # NoModelId =>
        /\ last_removed \notin IdsOf(models)
        /\ currentModel.id # last_removed

\* A model other than the current one was removed after the current one
\* had been updated.
C30_Witness ==
    /\ last_removed # NoModelId
    /\ currentModel # NoModel
    /\ currentModel.status = "completed"
    /\ Len(models) > 0

====
